---- MODULE Spec2Model ----
(***************************************************************************)
(* Order acceptance and inventory of the kada-vandi marketplace client.    *)
(*                                                                         *)
(* The store (products.inventory_count, orders.status, order_items) is a   *)
(* plain row store: schema.json declares no CHECK constraint and no        *)
(* trigger, so every rule about stock and status lives in the client       *)
(* handlers of app/(tabs)/orders.tsx, the dashboard and the older orders   *)
(* screen.  Each vendor session holds its own list of orders (useState)    *)
(* and runs its handlers as a sequence of awaited store requests; the      *)
(* requests of different sessions interleave, and every request may come   *)
(* back with an error.                                                     *)
(***************************************************************************)
EXTENDS Integers, Sequences, FiniteSets, TLC

\* ------------------------------------------------------------------ bounds

MaxStock == 2        \* initial inventory_count of a product is in 0..MaxStock
MaxAttempts == 2     \* handleOrderAction invocations (Accept / Reject taps) in one behaviour

Products == {"p1", "p2"}
Orders == {"o1", "o2"}
Sessions == {"s1", "s2"}     \* vendor sessions (devices / screens) of the owning vendor

\* ------------------------------------------------------------ program data

\* orders.tsx:9-16
ORDER_STATUSES ==
    <<"PLACED", "ACCEPTED", "PREPARING", "OUT_FOR_DELIVERY", "DELIVERED", "REJECTED">>

\* the older orders screen: the same list without REJECTED
ORDER_STATUSES_OLD ==
    <<"PLACED", "ACCEPTED", "PREPARING", "OUT_FOR_DELIVERY", "DELIVERED">>

Statuses == {ORDER_STATUSES[i] : i \in 1..Len(ORDER_STATUSES)}

NoRow == "NO_ROW"            \* no such order: in the store, or in a session's list
NoOrder == "none"

\* Array.prototype.indexOf, 0-based, -1 when absent
IndexOf(list, x) ==
    IF \E i \in 1..Len(list) : list[i] = x
    THEN (CHOOSE i \in 1..Len(list) : list[i] = x) - 1
    ELSE -1

\* ORDER_STATUSES.map((status, index) => index === currentIndex + 1 ? button : null):
\* the statuses a "Mark as" button is rendered for
NextStatuses(list, current) ==
    {list[i] : i \in {j \in 1..Len(list) : j - 1 = IndexOf(list, current) + 1}}

\* an order's line items: one row per product of the cart (cart items are keyed
\* by product id), each with a quantity
Line(p, q) == [product_id |-> p, quantity |-> q]
ItemLists ==
    { <<Line("p1", 2)>>,
      <<Line("p1", 1)>>,
      <<Line("p2", 1), Line("p1", 2)>> }

VARIABLES
    inventory_count,  \* products.inventory_count, per product
    status,           \* orders.status, per order
    order_items,      \* order_items rows of each order (quantity, product_id)
    orders,           \* per session: the status its order list shows per order
    pc,               \* per session: where its running handler is
    orderId,          \* per session: the handler's orderId argument
    action,           \* per session: the handler's action argument
    items,            \* per session: items (OrderItemForUpdate[]) of the handler
    products,         \* per session: the rows read by updateInventoryQuantities
    idx,              \* per session: position of the for..of loop over items
    initStock,        \* history: inventory_count at the start
    attempts,         \* history: number of handler invocations so far
    result,           \* history, per session: how its last handler ended
    nwritten,         \* history, per session: inventory writes of its last handler
    nError,           \* history: handler invocations ended by a store error
    nAccept,          \* history, per order: invocations of handleOrderAction(o, 'ACCEPTED')
    nDec              \* history, per order and line: inventory writes made for that line

\* the customer's side: carts and order placement
VARIABLES
    price,            \* products.price, per product row (a deleted product has none)
    total_amount,     \* orders.total_amount, per order
    vendor_id,        \* orders.vendor_id, per order
    cartState,        \* the cart context's reducer state: items and vendorId
    selectedAddress,  \* the delivery-address context's selected address, or null
    placePc,          \* where the customer's running handlePlaceOrder is
    closure,          \* the cartState that running handlePlaceOrder closed over
    order,            \* the row handlePlaceOrder's orders insert returned
    toast             \* text1 of the last Toast shown to the customer

acceptVars == <<inventory_count, status, order_items, orders, pc, orderId, action, items,
                products, idx, initStock, attempts, result, nwritten, nError, nAccept, nDec>>

placeVars == <<price, total_amount, vendor_id, cartState, selectedAddress, placePc,
               closure, order, toast>>

\* whose orders a session lists
VARIABLES
    customer_id,      \* orders.customer_id, per order
    changedBy         \* history, per order: the users whose sessions wrote its status

listVars == <<customer_id, changedBy>>

\* vendor locations and the radius query
VARIABLES
    vendor_locations,     \* the rows of table vendor_locations
    conflictKey,          \* the column upsert resolves conflicts on (the table's key)
    now,                  \* new Date(): the time of the next update
    locationSubscription, \* the tracker's locationSubscription.current is set
    vendors,              \* index.tsx: the rows the last get_active_vendors call returned
    query                 \* history: the arguments of that call

radiusVars == <<vendor_locations, conflictKey, now, locationSubscription, vendors, query>>

\* the vendor's inventory screen
VARIABLES
    modalVisible,     \* the add / edit form is open
    editingItem,      \* the product being edited, or null when adding
    formData          \* the form's fields, as typed

editVars == <<modalVisible, editingItem, formData>>

\* the customer's delivery addresses
VARIABLES
    addresses,        \* the delivery-address context's list
    pendingAddress,   \* the address handlers that wait for saveAddresses
    clock,            \* Date.now(), the id of the next address
    isModalVisible,   \* AddressesScreen: the form is open
    editingAddress    \* AddressesScreen: the address the form was opened for

addrVars == <<addresses, pendingAddress, clock, isModalVisible, editingAddress>>

\* the tracker's switch
VARIABLES
    isActive,         \* the Switch
    mounted,          \* the tracker component is mounted
    vendorIdState,    \* the tracker's vendorId state, null until fetched
    startPc,          \* startLocationTracking: "idle", or the await it is at
    stopPc,           \* stopLocationTracking: "idle", or at its await
    requests,         \* the vendor_locations upserts sent and not answered yet
    stopRecorded      \* history: the last toggle was off and its upsert went through

switchVars == <<isActive, mounted, vendorIdState, startPc, stopPc, requests, stopRecorded>>

\* the orders screen's fetches and its change notifications
VARIABLES
    fetching,         \* the fetchOrders calls of the screen that have not returned
    nFetch,           \* history: the fetchOrders calls made so far
    channel,          \* change notifications on their way to the screen
    notified,         \* history: a notification has reached the screen
    failed            \* history: a fetch has failed since the store last changed

notifyVars == <<fetching, nFetch, channel, notified, failed>>

extraVars == <<addrVars, switchVars, notifyVars>>

vars == <<acceptVars, placeVars, listVars, radiusVars, editVars, extraVars>>

storeVars == <<inventory_count, status, order_items>>
localVars == <<orderId, action, items, products, idx>>

\* an orders row with id o exists
Stored(o) == status[o] # NoRow

\* the store once the orders `placed` have been placed (status 'PLACED', each
\* with its order_items rows) and before the vendor has acted on any
InitStore(placed) ==
    /\ inventory_count \in [Products -> 0..MaxStock]
    /\ status = [o \in Orders |-> IF o \in placed THEN "PLACED" ELSE NoRow]
    /\ order_items \in {f \in [Orders -> ItemLists \cup {<<>>}] :
                            \A o \in Orders : (f[o] = <<>>) <=> (o \notin placed)}

\* the sessions as mounted: useState<Order[]>([]), no handler running
InitSessions ==
    /\ orders = [s \in Sessions |-> [o \in Orders |-> NoRow]]
    /\ pc = [s \in Sessions |-> "idle"]
    /\ orderId = [s \in Sessions |-> NoOrder]
    /\ action = [s \in Sessions |-> "none"]
    /\ items = [s \in Sessions |-> <<>>]
    /\ products = [s \in Sessions |-> <<>>]
    /\ idx = [s \in Sessions |-> 0]
    /\ initStock = inventory_count
    /\ attempts = 0
    /\ result = [s \in Sessions |-> "none"]
    /\ nwritten = [s \in Sessions |-> 0]
    /\ nError = 0
    /\ nAccept = [o \in Orders |-> 0]
    /\ nDec = [o \in Orders |-> [i \in 1..Len(order_items[o]) |-> 0]]

null == "null"

\* contexts/cart.tsx:35-38
initialState == [items |-> <<>>, vendorId |-> null]

\* no vendor has reported a location, no customer has looked for vendors
InitNoTracker ==
    /\ vendor_locations = {}
    /\ conflictKey = "vendor_id"
    /\ now = 0
    /\ locationSubscription = FALSE
    /\ vendors = <<>>
    /\ query = [user_point |-> <<>>, max_distance_meters |-> 0]

\* inventory.tsx:16-22 and resetForm: every field ''
emptyForm == [name |-> "", price |-> <<>>, inventory_count |-> <<>>]

\* selectedAddress, editingAddress: no address (null)
noAddress == [id |-> null]

\* no address saved, nobody at the addresses screen
InitNoAddresses ==
    /\ addresses = <<>>
    /\ pendingAddress = {}
    /\ clock = 0
    /\ isModalVisible = FALSE
    /\ editingAddress = noAddress

\* the tracker as mounted: switch off, no vendorId yet
InitNoSwitch ==
    /\ isActive = FALSE
    /\ mounted = TRUE
    /\ vendorIdState = null
    /\ startPc = "idle"
    /\ stopPc = "idle"
    /\ requests = {}
    /\ stopRecorded = FALSE

\* no orders screen at work
InitNoNotify ==
    /\ fetching = {}
    /\ nFetch = 0
    /\ channel = 0
    /\ notified = FALSE
    /\ failed = FALSE

InitNoExtra == InitNoAddresses /\ InitNoSwitch /\ InitNoNotify

\* the inventory screen as mounted
InitNoForm ==
    /\ modalVisible = FALSE
    /\ editingItem = null
    /\ formData = emptyForm

\* no customer at work: the amounts of the orders play no part, the cart is
\* empty and no order is being placed
InitNoCustomer ==
    /\ price = [p \in Products |-> 1]
    /\ total_amount = [o \in Orders |-> null]
    /\ vendor_id = [o \in Orders |-> null]
    /\ cartState = initialState
    /\ selectedAddress = noAddress
    /\ placePc = "idle"
    /\ closure = initialState
    /\ order = NoOrder
    /\ toast = "none"

\* no order has a customer on record, no session has written a status
InitNoLists ==
    /\ customer_id = [o \in Orders |-> null]
    /\ changedBy = [o \in Orders |-> {}]

Init ==
    /\ InitStore(Orders) /\ InitSessions
    /\ InitNoCustomer /\ InitNoLists /\ InitNoTracker /\ InitNoForm
    /\ InitNoExtra

histVars == <<initStock, nAccept, nDec>>

\* ---------------------------------------------------------------- fetchOrders

\* orders.tsx fetchOrders (and the dashboard's fetchRecentOrders): the vendor's
\* orders as the store holds them now replace the session's list.  It runs on
\* mount, on pull-to-refresh, on every change notification and, not awaited,
\* at the end of a handler that succeeded: its answer arrives as a step of its
\* own, any time later.  A failed fetch leaves the list as it was.
fetchOrders(s) ==
    /\ orders[s] # status
    /\ orders' = [orders EXCEPT ![s] = status]
    /\ UNCHANGED <<storeVars, pc, localVars, attempts, result, nwritten, nError, histVars>>

\* ---------------------------------------------------------- handleOrderAction

\* a handler invocation starts: its arguments are bound, nothing is read yet
Invoke(s, o, act, at) ==
    /\ attempts < MaxAttempts
    /\ pc[s] = "idle"
    /\ pc' = [pc EXCEPT ![s] = at]
    /\ orderId' = [orderId EXCEPT ![s] = o]
    /\ action' = [action EXCEPT ![s] = act]
    /\ items' = [items EXCEPT ![s] = <<>>]
    /\ products' = [products EXCEPT ![s] = <<>>]
    /\ idx' = [idx EXCEPT ![s] = 0]
    /\ attempts' = attempts + 1
    /\ result' = [result EXCEPT ![s] = "none"]
    /\ nwritten' = [nwritten EXCEPT ![s] = 0]
    /\ UNCHANGED nError

\* the handler returns: its locals (items, products, the loop position) are
\* gone; orderId and action stay on record with how it ended
Return(s, how) ==
    /\ pc' = [pc EXCEPT ![s] = "idle"]
    /\ result' = [result EXCEPT ![s] = how]
    /\ items' = [items EXCEPT ![s] = <<>>]
    /\ products' = [products EXCEPT ![s] = <<>>]
    /\ idx' = [idx EXCEPT ![s] = 0]

\* the handler's catch block: a toast, and nothing else
Caught(s, how) ==
    /\ Return(s, how)
    /\ nError' = IF how = "error" THEN nError + 1 ELSE nError

\* the Accept button, rendered for an order the list shows as PLACED
\* (orders.tsx:382-393, OrderCard:109-120): handleOrderAction(order.id, 'ACCEPTED')
AcceptPressed(s, o) ==
    /\ orders[s][o] = "PLACED"
    /\ Invoke(s, o, "ACCEPTED", "selectOrder")
    /\ nAccept' = [nAccept EXCEPT ![o] = nAccept[o] + 1]
    /\ UNCHANGED <<storeVars, orders, initStock, nDec>>

\* a reject that takes the accept's path through the order's items and stock
RejectPressedThroughInventory(s, o) ==
    /\ orders[s][o] = "PLACED"
    /\ Invoke(s, o, "REJECTED", "selectOrder")
    /\ UNCHANGED <<storeVars, orders, histVars>>

\* the Reject button and its confirmation: handleOrderAction(orderId, 'REJECTED')
\* goes straight to the status write
RejectPressed(s, o) ==
    /\ orders[s][o] = "PLACED"
    /\ Invoke(s, o, "REJECTED", "updateStatus")
    /\ UNCHANGED <<storeVars, orders, histVars>>

\* "Get order items first": select order_items of the order
SelectOrderItems(s) ==
    /\ pc[s] = "selectOrder"
    /\ \E orderError \in BOOLEAN :
        IF orderError
        THEN Caught(s, "error")
        ELSE /\ items' = [items EXCEPT ![s] = order_items[orderId[s]]]
             /\ pc' = [pc EXCEPT ![s] = "selectProducts"]
             /\ UNCHANGED <<result, products, idx, nError>>
    /\ UNCHANGED <<storeVars, orders, orderId, action, attempts,
                   nwritten, histVars>>

\* ------------------------------------------------- updateInventoryQuantities

\* "Get current inventory quantities": select id, inventory_count of the items'
\* products.  The rows are read once, before the loop.
SelectProducts(s) ==
    /\ pc[s] = "selectProducts"
    /\ \E fetchError \in BOOLEAN :
        IF fetchError
        THEN Caught(s, "error")
        ELSE /\ products' = [products EXCEPT ![s] =
                    [p \in {items[s][i].product_id : i \in 1..Len(items[s])}
                        |-> inventory_count[p]]]
             /\ idx' = [idx EXCEPT ![s] = 1]
             /\ pc' = [pc EXCEPT ![s] =
                    IF Len(items[s]) = 0 THEN "updateStatus" ELSE "forItems"]
             /\ UNCHANGED <<result, items, nError>>
    /\ UNCHANGED <<storeVars, orders, orderId, action, attempts, nwritten, histVars>>

\* const newCount = product.inventory_count - item.quantity
NewCount(count, quantity) == count - quantity

\* the check of the new count, off by one: a count of -1 passes
InsufficientOffByOne(newCount) == newCount < -1

\* the check of the new count, dropped: nothing is ever refused
InsufficientNeverThrown(newCount) == FALSE

\* if (newCount < 0) throw new Error(`Insufficient inventory for ...`)
InsufficientInventory(newCount) == newCount < 0

\* the loop's exit: the next item, or on to the status write
Advance(s) ==
    /\ idx' = [idx EXCEPT ![s] = idx[s] + 1]
    /\ pc' = [pc EXCEPT ![s] =
            IF idx[s] = Len(items[s]) THEN "updateStatus" ELSE "forItems"]

\* one pass of "for (const item of items)": find the row read earlier, compute
\* the new count from it, throw when it is negative, else write it
ForItem(s) ==
    /\ pc[s] = "forItems"
    /\ LET item == items[s][idx[s]]
           p == item.product_id
       IN IF p \notin DOMAIN products[s]
          THEN \* if (!product) continue
               /\ Advance(s)
               /\ UNCHANGED <<inventory_count, result, items, products, nwritten,
                              nError, nDec>>
          ELSE LET newCount == NewCount(products[s][p], item.quantity)
               IN IF InsufficientInventory(newCount)
                  THEN /\ Caught(s, "insufficient")
                       /\ UNCHANGED <<inventory_count, nwritten, nDec>>
                  ELSE \E updateError \in BOOLEAN :
                       IF updateError
                       THEN /\ Caught(s, "error")
                            /\ UNCHANGED <<inventory_count, nwritten, nDec>>
                       ELSE /\ inventory_count' =
                                   [inventory_count EXCEPT ![p] = newCount]
                            /\ nwritten' = [nwritten EXCEPT ![s] = nwritten[s] + 1]
                            /\ nDec' = [nDec EXCEPT ![orderId[s]][idx[s]] =
                                            nDec[orderId[s]][idx[s]] + 1]
                            /\ Advance(s)
                            /\ UNCHANGED <<result, items, products, nError>>
    /\ UNCHANGED <<status, order_items, orders, orderId, action, attempts,
                   initStock, nAccept>>

\* "Update order status": update orders set status = action where id = orderId,
\* then the success toast and fetchOrders()
UpdateOrderStatus(s) ==
    /\ pc[s] = "updateStatus"
    /\ \E error \in BOOLEAN :
        IF error
        THEN /\ Caught(s, "error")
             /\ UNCHANGED status
        ELSE /\ status' = [status EXCEPT ![orderId[s]] = action[s]]
             /\ Return(s, "ok")
             /\ UNCHANGED nError
    /\ UNCHANGED <<inventory_count, orders, order_items, orderId, action, attempts,
                   nwritten, histVars>>

\* ---------------------------------------------------------- handleUpdateStatus

\* handleUpdateStatus(orderId, newStatus): one unconditional status write
handleUpdateStatus(s, o, newStatus) ==
    /\ \E error \in BOOLEAN :
        status' = IF error THEN status ELSE [status EXCEPT ![o] = newStatus]
    /\ UNCHANGED <<inventory_count, order_items, orders, pc, localVars, attempts,
                   result, nwritten, nError, histVars, placeVars, listVars, radiusVars,
                   editVars, extraVars>>

\* the same with a "Mark as" button for a DELIVERED order as well
MarkAsOfferedPastDelivered(shown) ==
    IF shown \in Statuses \ {"PLACED", "REJECTED"}
    THEN NextStatuses(ORDER_STATUSES, shown)
    ELSE {}

\* orders.tsx:405-431 (OrderCard:132-158): for a listed order that is neither
\* PLACED nor DELIVERED nor REJECTED, a "Mark as" button for the status after it
MarkAsOffered(shown) ==
    IF shown \in Statuses \ {"PLACED", "DELIVERED", "REJECTED"}
    THEN NextStatuses(ORDER_STATUSES, shown)
    ELSE {}

\* the statuses the buttons of a vendor's listed order write (orders.tsx:380-433,
\* OrderCard:107-161): Accept and Reject for PLACED, else the "Mark as" button
Offered(shown) ==
    IF shown = "PLACED" THEN {"ACCEPTED", "REJECTED"} ELSE MarkAsOffered(shown)

MarkAsPressed(s, o) ==
    \E newStatus \in MarkAsOffered(orders[s][o]) : handleUpdateStatus(s, o, newStatus)

\* the older orders screen: a "Mark as" button for every listed order that is
\* not DELIVERED, PLACED and REJECTED included; it has no handleOrderAction
MarkAsOfferedOld(shown) ==
    IF shown \in Statuses \ {"DELIVERED"}
    THEN NextStatuses(ORDER_STATUSES_OLD, shown)
    ELSE {}

MarkAsPressedOld(s, o) ==
    \E newStatus \in MarkAsOfferedOld(orders[s][o]) : handleUpdateStatus(s, o, newStatus)

\* ------------------------------------------------------------- specification

\* Accepting and rejecting orders (handleOrderAction of the orders screen and of
\* the dashboard), from any stock and any of the order shapes.
Next ==
    /\ \E s \in Sessions :
        \/ fetchOrders(s)
        \/ SelectOrderItems(s)
        \/ SelectProducts(s)
        \/ ForItem(s)
        \/ UpdateOrderStatus(s)
        \/ \E o \in Orders :
            \/ AcceptPressed(s, o)
            \/ RejectPressed(s, o)
    /\ UNCHANGED <<placeVars, listVars, radiusVars, editVars, extraVars>>

Spec == Init /\ [][Next]_vars

\* The whole order lifecycle: the same, with the "Mark as" button of the orders
\* screen, for one placed order and full stock.
InitLifecycle ==
    /\ InitStore({"o1"})
    /\ inventory_count = [p \in Products |-> MaxStock]
    /\ InitSessions
    /\ InitNoCustomer
    /\ InitNoLists
    /\ InitNoTracker
    /\ InitNoForm
    /\ InitNoExtra

NextLifecycle ==
    \/ Next
    \/ \E s \in Sessions, o \in Orders : MarkAsPressed(s, o)

LifecycleSpec == InitLifecycle /\ [][NextLifecycle]_vars

\* The lifecycle with the older orders screen in use as well.
NextOldScreen ==
    \/ NextLifecycle
    \/ \E s \in Sessions, o \in Orders : MarkAsPressedOld(s, o)

OldScreenSpec == InitLifecycle /\ [][NextOldScreen]_vars

TypeOK ==
    /\ status \in [Orders -> Statuses \cup {NoRow}]
    /\ pc \in [Sessions -> {"idle", "selectOrder", "selectProducts", "forItems", "updateStatus"}]
    /\ attempts \in 0..MaxAttempts

\* ------------------------------------------------ the cart (contexts/cart.tsx)

MaxPrice == 2        \* a product's price is in 1..MaxPrice

Prices == 1..MaxPrice
Vendors == {"vA", "vB"}

\* the products customers shop from: those of vendor vA and one of vendor vB
Catalogue == Products \cup {"p3"}
product_vendor_id == [p \in Catalogue |-> IF p = "p3" THEN "vB" ELSE "vA"]

\* the products row of p as the store holds it now
Product(p) ==
    [id |-> p, vendor_id |-> product_vendor_id[p], price |-> price[p],
     inventory_count |-> inventory_count[p]]

\* interface CartItem extends Product { quantity }
CartItem(product, quantity) ==
    [id |-> product.id, vendor_id |-> product.vendor_id, price |-> product.price,
     inventory_count |-> product.inventory_count, quantity |-> quantity]

\* state.items[productId]: the position of the entry, 0 when there is none
\* (the entries of the object in insertion order)
ItemIndex(cartItems, productId) ==
    IF \E i \in 1..Len(cartItems) : cartItems[i].id = productId
    THEN CHOOSE i \in 1..Len(cartItems) : cartItems[i].id = productId
    ELSE 0

\* the vendor check, dropped
CrossVendorNeverRefused(state, product) == FALSE

\* state.vendorId && state.vendorId !== product.vendor_id
CrossVendor(state, product) ==
    state.vendorId # null /\ state.vendorId # product.vendor_id

\* case 'ADD_ITEM' without the vendor check
ADD_ITEMOfAnyVendor(state, product, quantity) ==
    LET i == ItemIndex(state.items, product.id)
    IN [vendorId |-> IF state.vendorId # null THEN state.vendorId ELSE product.vendor_id,
        items |-> IF i = 0
                  THEN Append(state.items, CartItem(product, quantity))
                  ELSE [state.items EXCEPT
                          ![i] = CartItem(product, state.items[i].quantity + quantity)]]

\* case 'ADD_ITEM': a throw leaves the reducer's state as it was
ADD_ITEM(state, product, quantity) ==
    IF CrossVendor(state, product)
    THEN state
    ELSE LET i == ItemIndex(state.items, product.id)
         IN [vendorId |-> IF state.vendorId # null THEN state.vendorId
                          ELSE product.vendor_id,
             items |-> IF i = 0
                       THEN Append(state.items, CartItem(product, quantity))
                       ELSE [state.items EXCEPT
                               ![i] = CartItem(product, state.items[i].quantity + quantity)]]

\* case 'REMOVE_ITEM'
REMOVE_ITEM(state, productId) ==
    LET remainingItems == SelectSeq(state.items, LAMBDA item : item.id # productId)
    IN [items |-> remainingItems,
        vendorId |-> IF Len(remainingItems) = 0 THEN null ELSE state.vendorId]

\* case 'UPDATE_QUANTITY' without the removal at zero
UPDATE_QUANTITYKeepingItem(state, productId, quantity) ==
    LET i == ItemIndex(state.items, productId)
    IN [state EXCEPT !.items =
           IF i = 0 THEN Append(state.items, [id |-> productId, quantity |-> quantity])
           ELSE [state.items EXCEPT ![i].quantity = quantity]]

\* case 'UPDATE_QUANTITY'
UPDATE_QUANTITY(state, productId, quantity) ==
    IF quantity <= 0
    THEN REMOVE_ITEM(state, productId)
    ELSE LET i == ItemIndex(state.items, productId)
         IN [state EXCEPT !.items =
                IF i = 0 THEN Append(state.items, [id |-> productId, quantity |-> quantity])
                ELSE [state.items EXCEPT ![i].quantity = quantity]]

\* case 'CLEAR_CART'
CLEAR_CART(state) == initialState

\* case 'SET_VENDOR'
SET_VENDOR(state, vendorId) ==
    IF state.vendorId # null /\ state.vendorId # vendorId
    THEN [items |-> <<>>, vendorId |-> vendorId]
    ELSE [state EXCEPT !.vendorId = vendorId]

\* reduce((total, item) => total + item.price * item.quantity, 0)
RECURSIVE SumPriceQuantity(_)
SumPriceQuantity(rows) ==
    IF rows = <<>> THEN 0
    ELSE Head(rows).price * Head(rows).quantity + SumPriceQuantity(Tail(rows))

getTotalAmount(state) == SumPriceQuantity(state.items)

custVars == <<cartState, selectedAddress, placePc, closure, order, toast>>

\* vendor/[id].tsx handleAddToCart(product), for a product the page lists; the
\* page refetches on every change of the vendor's products, so the row tapped
\* is the stored one.  The vendor is open.
handleAddToCart(p) ==
    /\ placePc = "idle"
    /\ p \in DOMAIN price
    /\ LET product == Product(p)
           i == ItemIndex(cartState.items, p)
           currentQuantity == IF i = 0 THEN 0 ELSE cartState.items[i].quantity
       IN IF CrossVendor(cartState, product)
          THEN /\ toast' = "Items from different vendors"
               /\ UNCHANGED cartState
          ELSE IF currentQuantity >= product.inventory_count
          THEN /\ toast' = "Maximum quantity reached"
               /\ UNCHANGED cartState
          ELSE /\ cartState' = ADD_ITEM(SET_VENDOR(cartState, product.vendor_id), product, 1)
               /\ toast' = "Added to cart"
    /\ UNCHANGED <<acceptVars, price, total_amount, vendor_id, selectedAddress,
                   placePc, closure, order>>

\* cart.tsx handleQuantityChange(productId, change), the - and + of a cart line
handleQuantityChange(productId, change) ==
    /\ placePc = "idle"
    /\ ItemIndex(cartState.items, productId) # 0
    /\ LET item == cartState.items[ItemIndex(cartState.items, productId)]
           newQuantity == item.quantity + change
       IN IF newQuantity <= item.inventory_count
          THEN /\ cartState' = UPDATE_QUANTITY(cartState, productId, newQuantity)
               /\ UNCHANGED toast
          ELSE /\ toast' = "Stock limit reached"
               /\ UNCHANGED cartState
    /\ UNCHANGED <<acceptVars, price, total_amount, vendor_id, selectedAddress,
                   placePc, closure, order>>

\* vendor/[id].tsx:239-249, the - of a product in stock that is in the cart
DecrementPressed(p) ==
    /\ placePc = "idle"
    /\ p \in DOMAIN price
    /\ inventory_count[p] > 0
    /\ ItemIndex(cartState.items, p) # 0
    /\ cartState' = UPDATE_QUANTITY(cartState, p,
                        cartState.items[ItemIndex(cartState.items, p)].quantity - 1)
    /\ UNCHANGED <<acceptVars, price, total_amount, vendor_id, selectedAddress,
                   placePc, closure, order, toast>>

\* cart.tsx handleRemoveItem(productId)
handleRemoveItem(productId) ==
    /\ placePc = "idle"
    /\ ItemIndex(cartState.items, productId) # 0
    /\ cartState' = REMOVE_ITEM(cartState, productId)
    /\ toast' = "Item removed from cart"
    /\ UNCHANGED <<acceptVars, price, total_amount, vendor_id, selectedAddress,
                   placePc, closure, order>>

\* cart.tsx handleClearCart, offered by the screen of a cart that is not empty
handleClearCart ==
    /\ placePc = "idle"
    /\ Len(cartState.items) > 0
    /\ cartState' = CLEAR_CART(cartState)
    /\ toast' = "Cart cleared"
    /\ UNCHANGED <<acceptVars, price, total_amount, vendor_id, selectedAddress,
                   placePc, closure, order>>

\* delivery-address.tsx selectAddress(address)
selectAddress(address) ==
    /\ selectedAddress' = address
    /\ selectedAddress' # selectedAddress
    /\ UNCHANGED <<acceptVars, price, total_amount, vendor_id, cartState,
                   placePc, closure, order, toast>>

\* ------------------------------------------- handlePlaceOrder (cart.tsx:28-93)

\* order_items rows of the insert: one per cart item, with the cart's price
orderItems(state) ==
    [i \in 1..Len(state.items) |->
        [product_id |-> state.items[i].id,
         quantity |-> state.items[i].quantity,
         price |-> state.items[i].price]]

\* "Place Order" confirmed on the screen of a cart that is not empty, no
\* placement running (isLoading): the address check, then the orders insert.
\* The handler goes on with the cartState of the render it was created in.
handlePlaceOrder ==
    /\ placePc = "idle"
    /\ Len(cartState.items) > 0
    /\ IF selectedAddress = noAddress
       THEN /\ toast' = "Please select a delivery address"
            /\ UNCHANGED <<status, total_amount, vendor_id, placePc, closure, order>>
       ELSE \E orderError \in BOOLEAN :
            IF orderError
            THEN /\ toast' = "Failed to place order"
                 /\ UNCHANGED <<status, total_amount, vendor_id, placePc, closure, order>>
            ELSE /\ \E o \in Orders : status[o] = NoRow
                 /\ LET o == CHOOSE o \in Orders : status[o] = NoRow
                    IN /\ status' = [status EXCEPT ![o] = "PLACED"]
                       /\ total_amount' = [total_amount EXCEPT ![o] = getTotalAmount(cartState)]
                       /\ vendor_id' = [vendor_id EXCEPT ![o] = cartState.vendorId]
                       /\ order' = o
                 /\ closure' = cartState
                 /\ placePc' = "insertItems"
                 /\ UNCHANGED toast
    /\ UNCHANGED <<inventory_count, order_items, orders, pc, localVars, attempts, result,
                   nwritten, nError, histVars, price, cartState, selectedAddress>>

\* the order_items rows of an insert, as stored
InsertedRows(o, rows) == [order_items EXCEPT ![o] = rows]

\* "Create order items": the insert fails on a row whose product is gone
\* (fk_order_item_product) or on any store error, and then the catch block
\* shows a toast; else clearCart(), the success toast, and on to the orders tab
InsertOrderItemsRows ==
    /\ placePc = "insertItems"
    /\ \E itemsError \in BOOLEAN :
        IF itemsError \/ \E i \in 1..Len(closure.items) : closure.items[i].id \notin DOMAIN price
        THEN /\ toast' = "Failed to place order"
             /\ UNCHANGED <<order_items, cartState>>
        ELSE /\ order_items' = InsertedRows(order, orderItems(closure))
             /\ cartState' = CLEAR_CART(cartState)
             /\ toast' = "Order placed successfully"
    /\ placePc' = "idle"
    /\ closure' = initialState
    /\ UNCHANGED <<status, orders, pc, localVars, attempts, result, nwritten, nError,
                   histVars, price, total_amount, vendor_id, selectedAddress, order>>

\* the insert, also taking the ordered quantities off the stock
InsertOrderItemsDecrementing ==
    /\ InsertOrderItemsRows
    /\ inventory_count' =
          [p \in DOMAIN inventory_count |->
              LET i == ItemIndex(cartState.items, p)
              IN IF cartState' # cartState /\ i # 0
                 THEN inventory_count[p] - cartState.items[i].quantity
                 ELSE inventory_count[p]]

InsertOrderItems ==
    /\ InsertOrderItemsRows
    /\ UNCHANGED inventory_count

\* ------------------------------------- the vendor's products (inventory.tsx)

\* inventory.tsx updateItem(id, itemData) after handleEdit and a change of the
\* price field: the other fields go back as the list showed them
EditPrice(p, newPrice) ==
    /\ p \in DOMAIN price
    /\ price[p] # newPrice
    /\ price' = [price EXCEPT ![p] = newPrice]
    /\ UNCHANGED <<acceptVars, total_amount, vendor_id, custVars>>

\* ON DELETE CASCADE of fk_order_item_product: the order_items rows of the
\* product go with it
CascadeDelete(rows, p) == SelectSeq(rows, LAMBDA row : row.product_id # p)

\* inventory.tsx deleteItem(id)
deleteItem(p) ==
    /\ p \in DOMAIN price
    /\ \E error \in BOOLEAN :
        IF error
        THEN UNCHANGED <<price, order_items>>
        ELSE /\ price' = [q \in DOMAIN price \ {p} |-> price[q]]
             /\ order_items' = [o \in Orders |-> CascadeDelete(order_items[o], p)]
    /\ UNCHANGED <<inventory_count, status, orders, pc, localVars, attempts, result,
                   nwritten, nError, histVars, total_amount, vendor_id, custVars>>

\* the product vendor vA works on in its inventory screen
Edited == {"p1"}

\* One customer shopping and placing orders while vendor vA edits and deletes
\* a product in full stock (one piece is left of the others); no order exists
\* at the start.  The customer leaves the cart
\* alone while a placement is running (the button shows the spinner).
InitPlace ==
    /\ inventory_count = [p \in Catalogue |-> IF p \in Edited THEN MaxStock ELSE 1]
    /\ status = [o \in Orders |-> NoRow]
    /\ order_items = [o \in Orders |-> <<>>]
    /\ InitSessions
    /\ price = [p \in Catalogue |-> 1]
    /\ total_amount = [o \in Orders |-> null]
    /\ vendor_id = [o \in Orders |-> null]
    /\ cartState = initialState
    /\ selectedAddress = noAddress
    /\ placePc = "idle"
    /\ closure = initialState
    /\ order = NoOrder
    /\ toast = "none"
    /\ customer_id = [o \in Orders |-> null]
    /\ changedBy = [o \in Orders |-> {}]
    /\ InitNoTracker
    /\ InitNoForm
    /\ InitNoExtra

NextPlace ==
    /\ UNCHANGED <<listVars, radiusVars, editVars, extraVars>>
    /\ \/ \E p \in Catalogue : handleAddToCart(p)
       \/ \E p \in Catalogue, change \in {-1, 1} : handleQuantityChange(p, change)
       \/ \E p \in Catalogue : DecrementPressed(p)
       \/ \E p \in Catalogue : handleRemoveItem(p)
       \/ handleClearCart
       \/ selectAddress([id |-> "1", label |-> "home", isDefault |-> TRUE])
       \/ handlePlaceOrder
       \/ InsertOrderItems
       \/ \E p \in Edited, newPrice \in Prices : EditPrice(p, newPrice)
       \/ \E p \in Edited : deleteItem(p)

PlaceSpec == InitPlace /\ [][NextPlace]_vars

\* -------------------------------------------- whose orders a session lists

\* the signed-in users: a vendor (user_metadata.role 'vendor') and a customer
Users == {"uA", "uC"}
Customers == {"uC", "uD"}

\* session?.user?.user_metadata?.role === 'vendor'
isVendor(u) == u = "uA"

\* vendors.user_id: the vendors row of a vendor user
VendorRecord(u) == "vA"

\* fetchOrders (orders.tsx:89-159) of user u's session.  The vendors lookup of
\* a vendor session may come back without a row (its error is not looked at):
\* then no vendor filter is put on the query.
fetchOrdersOf(u) ==
    /\ \E vendorData \in {VendorRecord(u), null}, error \in BOOLEAN :
        LET selected(o) ==
                /\ Stored(o)
                /\ IF isVendor(u)
                   THEN vendorData # null => vendor_id[o] = vendorData
                   ELSE customer_id[o] = u
        IN /\ ~error
           /\ orders' = [orders EXCEPT ![u] =
                    [o \in Orders |-> IF selected(o) THEN status[o] ELSE NoRow]]
    /\ orders' # orders
    /\ UNCHANGED <<storeVars, pc, localVars, attempts, result, nwritten, nError, histVars,
                   placeVars, listVars>>

\* the buttons of a listed order, rendered in a vendor session only
\* (orders.tsx:380-433): Reject for PLACED, else "Mark as" the next status
StatusButtons(u, shown) ==
    IF ~isVendor(u) THEN {}
    ELSE IF shown = "PLACED" THEN {"REJECTED"}
    ELSE MarkAsOffered(shown)

\* a button pressed: update orders set status = newStatus where id = o
StatusButtonPressed(u, o, newStatus) ==
    /\ newStatus \in StatusButtons(u, orders[u][o])
    /\ \E error \in BOOLEAN :
        IF error
        THEN UNCHANGED <<status, changedBy>>
        ELSE /\ status' = [status EXCEPT ![o] = newStatus]
             /\ changedBy' = [changedBy EXCEPT ![o] = changedBy[o] \cup {u}]
    /\ UNCHANGED <<inventory_count, order_items, orders, pc, localVars, attempts, result,
                   nwritten, nError, histVars, placeVars, customer_id>>

\* Orders of two vendors and two customers, in any status a vendor still acts
\* on; a vendor session and a customer session.
InitList ==
    /\ inventory_count = [p \in Products |-> MaxStock]
    /\ status \in [Orders -> {"PLACED", "ACCEPTED", "OUT_FOR_DELIVERY"}]
    /\ order_items = [o \in Orders |-> <<>>]
    /\ orders = [u \in Users |-> [o \in Orders |-> NoRow]]
    /\ pc = [s \in Sessions |-> "idle"]
    /\ orderId = [s \in Sessions |-> NoOrder]
    /\ action = [s \in Sessions |-> "none"]
    /\ items = [s \in Sessions |-> <<>>]
    /\ products = [s \in Sessions |-> <<>>]
    /\ idx = [s \in Sessions |-> 0]
    /\ initStock = inventory_count
    /\ attempts = 0
    /\ result = [s \in Sessions |-> "none"]
    /\ nwritten = [s \in Sessions |-> 0]
    /\ nError = 0
    /\ nAccept = [o \in Orders |-> 0]
    /\ nDec = [o \in Orders |-> <<>>]
    /\ price = [p \in Products |-> 1]
    /\ total_amount = [o \in Orders |-> null]
    /\ vendor_id \in [Orders -> Vendors]
    /\ cartState = initialState
    /\ selectedAddress = noAddress
    /\ placePc = "idle"
    /\ closure = initialState
    /\ order = NoOrder
    /\ toast = "none"
    /\ customer_id \in [Orders -> Customers]
    /\ changedBy = [o \in Orders |-> {}]
    /\ InitNoTracker
    /\ InitNoForm
    /\ InitNoExtra

NextList ==
    /\ UNCHANGED <<radiusVars, editVars, extraVars>>
    /\ \/ \E u \in Users : fetchOrdersOf(u)
       \/ \E u \in Users, o \in Orders, newStatus \in Statuses :
               StatusButtonPressed(u, o, newStatus)

ListSpec == InitList /\ [][NextList]_vars

\* ------------------- the orders screen and its channel (orders.tsx:89-317)

MaxFetches == 3      \* fetchOrders calls in one behaviour
MaxNotes == 2        \* change notifications on their way at one time

\* the screen is the one of vendor user uA
screenUser == "uA"

\* what the orders query of user u selects from the store as it is now
QueryResult(u) ==
    [o \in Orders |->
        IF Stored(o) /\ vendor_id[o] = VendorRecord(u) THEN status[o] ELSE NoRow]

\* a fetchOrders call that has not returned: it waits for the store to run
\* its query ("query"), or for the answer to arrive ("data", "error")
Fetch(id, stage, data) == [id |-> id, stage |-> stage, data |-> data]
noData == [o \in Orders |-> NoRow]

notNotify == <<inventory_count, order_items, pc, localVars, attempts, result, nwritten,
               nError, histVars, placeVars, customer_id, radiusVars, editVars, addrVars,
               switchVars>>

\* fetchOrders() is called: its query goes to the store
fetchOrdersCalled ==
    /\ nFetch < MaxFetches
    /\ nFetch' = nFetch + 1
    /\ fetching' = fetching \cup {Fetch(nFetch + 1, "query", noData)}

\* a change of table orders is published: the screen's channel gets the
\* notification once, or twice, or - the first having been delivered - not
\* at all
published ==
    /\ \E n \in 0..2 :
        /\ n = 0 => notified
        /\ channel + n <= MaxNotes
        /\ channel' = channel + n
    /\ failed' = FALSE

\* the store runs the query of a fetch, or fails
queryRun(f) ==
    /\ f \in fetching
    /\ f.stage = "query"
    /\ \E error \in BOOLEAN :
        fetching' = (fetching \ {f}) \cup
            {IF error THEN Fetch(f.id, "error", f.data)
                      ELSE Fetch(f.id, "data", QueryResult(screenUser))}
    /\ UNCHANGED <<notNotify, status, changedBy, orders, nFetch, channel, notified, failed>>

\* fetchOrders goes on after `await query`: setOrders(formattedOrders), or the
\* error Toast
fetchOrdersReturns(f) ==
    /\ f \in fetching
    /\ f.stage # "query"
    /\ fetching' = fetching \ {f}
    /\ IF f.stage = "data"
       THEN /\ orders' = [orders EXCEPT ![screenUser] = f.data]
            /\ UNCHANGED failed
       ELSE /\ failed' = TRUE
            /\ UNCHANGED orders
    /\ UNCHANGED <<notNotify, status, changedBy, nFetch, channel, notified>>

\* the channel's callback: () => { fetchOrders(); }
onNotification ==
    /\ channel > 0
    /\ channel' = channel - 1
    /\ notified' = TRUE
    /\ fetchOrdersCalled
    /\ UNCHANGED <<notNotify, status, changedBy, orders, failed>>

\* pull to refresh
onRefresh ==
    /\ fetchOrdersCalled
    /\ UNCHANGED <<notNotify, status, changedBy, orders, channel, notified, failed>>

\* handleUpdateStatus(o, newStatus) and handleOrderAction(o, 'REJECTED') of the
\* screen: the update, and after it fetchOrders()
StatusChangedOnScreen(o, newStatus) ==
    /\ newStatus \in StatusButtons(screenUser, orders[screenUser][o])
    /\ \E error \in BOOLEAN :
        IF error
        THEN UNCHANGED <<status, changedBy, notifyVars>>
        ELSE /\ status' = [status EXCEPT ![o] = newStatus]
             /\ changedBy' = [changedBy EXCEPT ![o] = changedBy[o] \cup {screenUser}]
             /\ fetchOrdersCalled
             /\ published
             /\ UNCHANGED notified
    /\ UNCHANGED <<notNotify, orders>>

\* another session changes an order: a vendor's other device moves it on
changedElsewhere(o, newStatus) ==
    /\ Stored(o)
    /\ newStatus \in Offered(status[o])
    /\ status' = [status EXCEPT ![o] = newStatus]
    /\ published
    /\ UNCHANGED <<notNotify, changedBy, orders, fetching, nFetch, notified>>

\* The screen has just been mounted: its list is empty and the fetchOrders of
\* the mount effect is on its way.  Order o1 is one of the screen's vendor,
\* order o2 one of the other vendor; both have just been placed.
InitNotify ==
    /\ inventory_count = [p \in Products |-> MaxStock]
    /\ status = [o \in Orders |-> "PLACED"]
    /\ order_items = [o \in Orders |-> <<>>]
    /\ orders = [u \in Users |-> [o \in Orders |-> NoRow]]
    /\ pc = [s \in Sessions |-> "idle"]
    /\ orderId = [s \in Sessions |-> NoOrder]
    /\ action = [s \in Sessions |-> "none"]
    /\ items = [s \in Sessions |-> <<>>]
    /\ products = [s \in Sessions |-> <<>>]
    /\ idx = [s \in Sessions |-> 0]
    /\ initStock = inventory_count
    /\ attempts = 0
    /\ result = [s \in Sessions |-> "none"]
    /\ nwritten = [s \in Sessions |-> 0]
    /\ nError = 0
    /\ nAccept = [o \in Orders |-> 0]
    /\ nDec = [o \in Orders |-> <<>>]
    /\ price = [p \in Products |-> 1]
    /\ total_amount = [o \in Orders |-> null]
    /\ vendor_id = [o \in Orders |-> IF o = "o1" THEN "vA" ELSE "vB"]
    /\ cartState = initialState
    /\ selectedAddress = noAddress
    /\ placePc = "idle"
    /\ closure = initialState
    /\ order = NoOrder
    /\ toast = "none"
    /\ customer_id = [o \in Orders |-> "uC"]
    /\ changedBy = [o \in Orders |-> {}]
    /\ InitNoTracker /\ InitNoForm /\ InitNoAddresses /\ InitNoSwitch
    /\ fetching = {Fetch(1, "query", noData)}
    /\ nFetch = 1
    /\ channel = 0
    /\ notified = FALSE
    /\ failed = FALSE

NextNotify ==
    \/ \E f \in fetching : queryRun(f)
    \/ \E f \in fetching : fetchOrdersReturns(f)
    \/ onNotification
    \/ onRefresh
    \/ \E o \in Orders, newStatus \in Statuses : StatusChangedOnScreen(o, newStatus)
    \/ \E o \in Orders, newStatus \in Statuses : changedElsewhere(o, newStatus)

NotifySpec == InitNotify /\ [][NextNotify]_vars

\* ---------------------------- vendor locations (VendorLocationTracker.tsx)

MaxUpdates == 3      \* location updates sent in one behaviour
MaxPoint == 3        \* positions 0..MaxPoint along a road, in half metres

Points == 0..MaxPoint
Radii == {0, 1}              \* max_distance_meters of a query

\* `POINT(lng lat)`, and a location column that is NULL
POINT(x) == <<x>>
NullLocation == <<>>

\* a vendor_locations row
LocationRow(v, location, is_active, updated_at) ==
    [vendor_id |-> v, location |-> location, is_active |-> is_active,
     updated_at |-> updated_at]

\* supabase.from('vendor_locations').upsert(payload): a new row, its location
\* NULL when the payload has none; or, when the table is keyed by vendor_id and
\* holds a row of the vendor, that row with the payload's columns overwritten
upsertAt(v, hasLocation, location, is_active, updated_at) ==
    IF conflictKey = "vendor_id" /\ \E r \in vendor_locations : r.vendor_id = v
    THEN {IF r.vendor_id = v
          THEN LocationRow(v, IF hasLocation THEN location ELSE r.location, is_active,
                           updated_at)
          ELSE r : r \in vendor_locations}
    ELSE vendor_locations \cup
            {LocationRow(v, IF hasLocation THEN location ELSE NullLocation, is_active,
                         updated_at)}

\* the same, sent and answered in one step
upsert(v, hasLocation, location, is_active) ==
    upsertAt(v, hasLocation, location, is_active, now)

notRadius == <<acceptVars, placeVars, listVars, editVars, extraVars>>

\* the tracker of vendor vA (its vendorId is fetched on mount)
vendorId == "vA"

\* startLocationTracking: "First, update the active status", then
\* watchPositionAsync; any failure is caught and the switch goes back to off
startLocationTracking ==
    /\ ~locationSubscription
    /\ now <= MaxUpdates
    /\ now' = now + 1
    /\ \E statusError \in BOOLEAN, watchError \in BOOLEAN :
        /\ vendor_locations' = IF statusError THEN vendor_locations
                               ELSE upsert(vendorId, FALSE, NullLocation, TRUE)
        /\ locationSubscription' = (~statusError /\ ~watchError)
    /\ UNCHANGED <<notRadius, conflictKey, vendors, query>>

\* the watchPositionAsync callback: "Update location in vendor_locations table"
locationCallback(x) ==
    /\ locationSubscription
    /\ now <= MaxUpdates
    /\ now' = now + 1
    /\ \E error \in BOOLEAN :
        vendor_locations' = IF error THEN vendor_locations
                            ELSE upsert(vendorId, TRUE, POINT(x), TRUE)
    /\ UNCHANGED <<notRadius, conflictKey, locationSubscription, vendors, query>>

\* stopLocationTracking (the switch turned off, or the component unmounted):
\* the subscription is removed and "the active status" set to false
stopLocationTracking ==
    /\ now <= MaxUpdates
    /\ now' = now + 1
    /\ locationSubscription' = FALSE
    /\ \E error \in BOOLEAN :
        vendor_locations' = IF error THEN vendor_locations
                            ELSE upsert(vendorId, FALSE, NullLocation, FALSE)
    /\ UNCHANGED <<notRadius, conflictKey, vendors, query>>

\* ----------------- get_active_vendors (sql/create_get_vendors_within_radius.sql)

LIMIT == 50

\* ST_Distance of two geography points, in half metres
ST_Distance(a, b) == IF a[1] >= b[1] THEN a[1] - b[1] ELSE b[1] - a[1]

\* cast(... as integer) of a distance of d half metres: to the nearest metre,
\* a half to the even one
CastAsInteger(d) ==
    IF d % 2 = 0 THEN d \div 2
    ELSE IF (d \div 2) % 2 = 0 THEN d \div 2 ELSE d \div 2 + 1

\* the radius filter, dropped
ST_DWithinAnywhere(a, b, meters) == TRUE

\* ST_DWithin(a, b, max_distance_meters)
ST_DWithin(a, b, meters) == ST_Distance(a, b) <= 2 * meters

\* the active_vendors CTE: of each vendor, the latest of its rows that have a
\* location (DISTINCT ON (vendor_id) ... WHERE location IS NOT NULL
\* ORDER BY vendor_id, updated_at DESC)
active_vendors ==
    {vl \in vendor_locations :
        /\ vl.location # NullLocation
        /\ \A other \in vendor_locations :
            (other.vendor_id = vl.vendor_id /\ other.location # NullLocation)
                => other.updated_at <= vl.updated_at}

\* the rows of the final SELECT's FROM ... WHERE (every vendors row has a
\* business_name)
WithinRadius(user_point, max_distance_meters) ==
    {av \in active_vendors :
        /\ av.vendor_id \in Vendors
        /\ ST_DWithin(av.location, user_point, max_distance_meters)}

\* ORDER BY location <-> point: the rows in an order of non-decreasing distance
OrderedByDistance(rows, user_point) ==
    {seq \in [1..Cardinality(rows) -> rows] :
        /\ \A i, j \in 1..Cardinality(rows) : i # j => seq[i] # seq[j]
        /\ \A i, j \in 1..Cardinality(rows) :
            i < j => ST_Distance(seq[i].location, user_point)
                        <= ST_Distance(seq[j].location, user_point)}

\* the result table: the SELECT list of each row, the first LIMIT rows
get_active_vendors(user_point, max_distance_meters) ==
    {[i \in 1..(IF Len(seq) < LIMIT THEN Len(seq) ELSE LIMIT) |->
        [id |-> seq[i].vendor_id,
         distance_meters |-> CastAsInteger(ST_Distance(seq[i].location, user_point)),
         is_active |-> seq[i].is_active]] :
     seq \in OrderedByDistance(WithinRadius(user_point, max_distance_meters), user_point)}

\* index.tsx fetchVendors: supabase.rpc("get_active_vendors", ...), setVendors(data)
fetchVendors(user_point, max_distance_meters) ==
    /\ \E error \in BOOLEAN :
        /\ ~error
        /\ vendors' \in get_active_vendors(user_point, max_distance_meters)
        /\ query' = [user_point |-> user_point, max_distance_meters |-> max_distance_meters]
    /\ UNCHANGED <<notRadius, vendor_locations, conflictKey, now, locationSubscription>>

\* no orders, nobody at the orders screens
InitNoOrders ==
    /\ inventory_count = [p \in Products |-> MaxStock]
    /\ status = [o \in Orders |-> NoRow]
    /\ order_items = [o \in Orders |-> <<>>]
    /\ InitSessions

\* Vendor vB stands somewhere along the road, active; vendor vA switches its
\* tracker on and off and moves; a customer looks for vendors.  The table
\* vendor_locations is keyed by vendor_id (one row per vendor, updated in
\* place) or by a row id of its own (one row per update).
InitRadius ==
    /\ InitNoOrders
    /\ InitNoCustomer
    /\ InitNoLists
    /\ InitNoForm
    /\ InitNoExtra
    /\ \E x \in Points : vendor_locations = {LocationRow("vB", POINT(x), TRUE, 0)}
    /\ conflictKey \in {"vendor_id", "id"}
    /\ now = 1
    /\ locationSubscription = FALSE
    /\ vendors = <<>>
    /\ query = [user_point |-> <<>>, max_distance_meters |-> 0]

NextRadius ==
    \/ startLocationTracking
    \/ \E x \in Points : locationCallback(x)
    \/ stopLocationTracking
    \/ \E user_point \in Points, max_distance_meters \in Radii :
            fetchVendors(POINT(user_point), max_distance_meters)

RadiusSpec == InitRadius /\ [][NextRadius]_vars

\* ------------- the tracker's switch, step by step (VendorLocationTracker.tsx)

\* an upsert sent to the store and not answered yet; updated_at is the
\* sender's new Date()
Request(from, hasLocation, location, is_active) ==
    [from |-> from, hasLocation |-> hasLocation, location |-> location,
     is_active |-> is_active, updated_at |-> now]

send(request) ==
    /\ now <= MaxUpdates
    /\ now' = now + 1
    /\ requests' = requests \cup {request}

notSwitch == <<acceptVars, placeVars, listVars, editVars, addrVars, notifyVars,
               conflictKey, vendors, query>>

\* fetchVendorId, called on mount
fetchVendorId ==
    /\ mounted
    /\ vendorIdState = null
    /\ \E error \in BOOLEAN : vendorIdState' = IF error THEN null ELSE vendorId
    /\ vendorIdState' # vendorIdState
    /\ UNCHANGED <<notSwitch, vendor_locations, now, locationSubscription, isActive,
                   mounted, startPc, stopPc, requests, stopRecorded>>

\* startLocationTracking up to its first await: without a vendorId the switch
\* goes back to off, else the is_active = true upsert is sent
startLocationTrackingCalled ==
    /\ startPc = "idle"
    /\ IF vendorIdState = null
       THEN /\ isActive' = FALSE
            /\ UNCHANGED <<startPc, requests, now>>
       ELSE /\ isActive' = TRUE
            /\ send(Request("start", FALSE, NullLocation, TRUE))
            /\ startPc' = "upsert"
    /\ stopRecorded' = FALSE
    /\ UNCHANGED <<locationSubscription, stopPc>>

\* stopLocationTracking up to its await, with the vendorId of the render the
\* function was created in: the subscription in the ref is removed, and with
\* a vendorId the is_active = false upsert is sent
stopLocationTrackingCalled(closureVendorId) ==
    /\ stopPc = "idle"
    /\ locationSubscription' = FALSE
    /\ IF closureVendorId = null
       THEN UNCHANGED <<stopPc, requests, now>>
       ELSE /\ send(Request("stop", FALSE, NullLocation, FALSE))
            /\ stopPc' = "upsert"
    /\ UNCHANGED <<startPc, stopRecorded>>

\* handleToggle(value), the Switch turned by a vendor whose location
\* permission is granted
handleToggle(value) ==
    /\ mounted
    /\ value # isActive
    /\ IF value
       THEN startLocationTrackingCalled
       ELSE /\ isActive' = FALSE
            /\ stopLocationTrackingCalled(vendorIdState)
    /\ UNCHANGED <<notSwitch, vendor_locations, mounted, vendorIdState>>

\* the cleanup of the mount effect, useEffect(..., []): stopLocationTracking
\* of the first render, whose vendorId is the initial state, null
unmount ==
    /\ mounted
    /\ mounted' = FALSE
    /\ stopLocationTrackingCalled(null)
    /\ UNCHANGED <<notSwitch, vendor_locations, isActive, vendorIdState>>

\* the watchPositionAsync callback up to its await: the location upsert is sent
positionCallback(x) ==
    /\ locationSubscription
    /\ send(Request("callback", TRUE, POINT(x), TRUE))
    /\ UNCHANGED <<notSwitch, vendor_locations, locationSubscription, isActive, mounted,
                   vendorIdState, startPc, stopPc, stopRecorded>>

\* the store answers an upsert: unless it fails the row is written, and the
\* handler that awaited it goes on
Answered(request) ==
    /\ request \in requests
    /\ requests' = requests \ {request}
    /\ \E error \in BOOLEAN :
        /\ vendor_locations' =
              IF error THEN vendor_locations
              ELSE upsertAt(vendorId, request.hasLocation, request.location,
                            request.is_active, request.updated_at)
        /\ CASE request.from = "start" ->
                  /\ startPc' = IF error THEN "idle" ELSE "watch"
                  /\ isActive' = (isActive /\ ~error)
                  /\ UNCHANGED <<stopPc, stopRecorded>>
             [] request.from = "stop" ->
                  /\ stopPc' = "idle"
                  /\ stopRecorded' = ~error
                  /\ UNCHANGED <<startPc, isActive>>
             [] request.from = "callback" ->
                  UNCHANGED <<startPc, stopPc, isActive, stopRecorded>>
    /\ UNCHANGED <<notSwitch, now, locationSubscription, mounted, vendorIdState>>

\* watchPositionAsync returns: the subscription goes into the ref, or the
\* catch block turns the switch off
watchPositionAsync ==
    /\ startPc = "watch"
    /\ startPc' = "idle"
    /\ \E error \in BOOLEAN :
        /\ locationSubscription' = IF error THEN locationSubscription ELSE TRUE
        /\ isActive' = (isActive /\ ~error)
    /\ UNCHANGED <<notSwitch, vendor_locations, now, mounted, vendorIdState, stopPc,
                   requests, stopRecorded>>

\* The tracker of vendor vA, mounted with its switch off; no row of the
\* vendor yet.
InitSwitch ==
    /\ InitNoOrders
    /\ InitNoCustomer
    /\ InitNoLists
    /\ InitNoForm
    /\ InitNoAddresses
    /\ InitNoSwitch
    /\ InitNoNotify
    /\ vendor_locations = {}
    /\ conflictKey \in {"vendor_id", "id"}
    /\ now = 1
    /\ locationSubscription = FALSE
    /\ vendors = <<>>
    /\ query = [user_point |-> <<>>, max_distance_meters |-> 0]

NextSwitch ==
    \/ fetchVendorId
    \/ \E value \in BOOLEAN : handleToggle(value)
    \/ unmount
    \/ \E x \in Points : positionCallback(x)
    \/ \E request \in requests : Answered(request)
    \/ watchPositionAsync

SwitchSpec == InitSwitch /\ [][NextSwitch]_vars

\* every upsert sent is answered, and watchPositionAsync returns
SwitchFairSpec ==
    /\ SwitchSpec
    /\ WF_vars(\E request \in requests : Answered(request))
    /\ WF_vars(watchPositionAsync)

\* ------------------------------- the inventory form (inventory.tsx:148-197)

\* A text field holds a sequence of characters.  The texts a vendor types or
\* pastes into a field: nothing, a count, a negative count, no number, a count
\* followed by a letter
Texts == {<<>>, <<"1">>, <<"-", "1">>, <<"x">>, <<"1", "x">>}
Names == {"", "tea"}

Digits == <<"0", "1", "2", "3", "4", "5", "6", "7", "8", "9">>
isDigit(c) == \E i \in 1..10 : Digits[i] = c
DigitValue(c) == (CHOOSE i \in 1..10 : Digits[i] = c) - 1

\* the longest prefix of text that holds digits only
RECURSIVE DigitPrefix(_)
DigitPrefix(text) ==
    IF text = <<>> \/ ~isDigit(Head(text)) THEN <<>>
    ELSE <<Head(text)>> \o DigitPrefix(Tail(text))

\* the number a sequence of decimal digits writes
RECURSIVE DecimalValue(_)
DecimalValue(digits) ==
    IF digits = <<>> THEN 0
    ELSE DecimalValue(SubSeq(digits, 1, Len(digits) - 1)) * 10
         + DigitValue(digits[Len(digits)])

\* JavaScript's parseInt(text): an optional sign, then the digits up to the
\* first character that is none; NaN when there is no digit.  (No text here
\* starts with white space or with 0x.)
parseInt(text) ==
    LET signed == text # <<>> /\ Head(text) \in {"-", "+"}
        digits == DigitPrefix(IF signed THEN Tail(text) ELSE text)
    IN  IF digits = <<>>
        THEN [isNaN |-> TRUE, value |-> 0]
        ELSE [isNaN |-> FALSE,
              value |-> IF Head(text) = "-" THEN 0 - DecimalValue(digits)
                        ELSE DecimalValue(digits)]

\* JavaScript's parseFloat(text), on texts without '.', 'e' or 'Infinity':
\* the same number as parseInt
parseFloat(text) == parseInt(text)

\* Number.prototype.toString() of an integer
RECURSIVE NaturalToString(_)
NaturalToString(n) ==
    IF n < 10 THEN <<Digits[n + 1]>>
    ELSE NaturalToString(n \div 10) \o <<Digits[(n % 10) + 1]>>

toString(n) == IF n < 0 THEN <<"-">> \o NaturalToString(0 - n) ELSE NaturalToString(n)

\* A products row exists when it has a price (the column is NOT NULL); its
\* inventory_count is NULL when the row has no count.
RowExists(p) == p \in DOMAIN price
CountIsNull(p) == p \notin DOMAIN inventory_count

\* f with p mapped to v
Put(f, p, v) == [q \in DOMAIN f \cup {p} |-> IF q = p THEN v ELSE f[q]]
\* f without p
Drop(f, p) == [q \in DOMAIN f \ {p} |-> f[q]]

\* column inventory_count of a row written from itemData: JSON carries NaN as
\* null, and the column takes NULL
WriteCount(p, itemData) ==
    inventory_count' = IF itemData.inventory_count.isNaN
                       THEN Drop(inventory_count, p)
                       ELSE Put(inventory_count, p, itemData.inventory_count.value)

notProducts == <<status, order_items, orders, pc, localVars, attempts, result, nwritten,
                 nError, histVars, total_amount, vendor_id, custVars, listVars, radiusVars,
                 extraVars>>

\* inventory.tsx resetForm
resetForm ==
    /\ formData' = emptyForm
    /\ editingItem' = null

\* the Add Item button (inventory.tsx:253-258)
AddItemPressed ==
    /\ ~modalVisible
    /\ resetForm
    /\ modalVisible' = TRUE
    /\ UNCHANGED <<inventory_count, price, notProducts>>

\* inventory.tsx handleEdit(item), item a row of the list, which is refetched
\* after every change this screen makes.  A NULL count has no toString: the
\* handler throws after setEditingItem and the form stays closed.
handleEdit(p) ==
    /\ ~modalVisible
    /\ RowExists(p)
    /\ editingItem' = p
    /\ IF CountIsNull(p)
       THEN UNCHANGED <<formData, modalVisible>>
       ELSE /\ formData' = [name |-> "tea", price |-> toString(price[p]),
                            inventory_count |-> toString(inventory_count[p])]
            /\ modalVisible' = TRUE
    /\ UNCHANGED <<inventory_count, price, notProducts>>

\* onChangeText of the form's fields (inventory.tsx:288-320)
onChangeText ==
    /\ modalVisible
    /\ \/ \E text \in Names : formData' = [formData EXCEPT !.name = text]
       \/ \E text \in Texts : formData' = [formData EXCEPT !.price = text]
       \/ \E text \in Texts : formData' = [formData EXCEPT !.inventory_count = text]
    /\ UNCHANGED <<modalVisible, editingItem, inventory_count, price, notProducts>>

\* the form's Cancel button (inventory.tsx:333-338)
CancelPressed ==
    /\ modalVisible
    /\ modalVisible' = FALSE
    /\ resetForm
    /\ UNCHANGED <<inventory_count, price, notProducts>>

\* the Modal's onRequestClose (inventory.tsx:280): the form keeps its fields
onRequestClose ==
    /\ modalVisible
    /\ modalVisible' = FALSE
    /\ UNCHANGED <<formData, editingItem, inventory_count, price, notProducts>>

\* inventory.tsx addItem(item): the vendor lookup, then the insert of a row
\* with a new id; a NULL price is refused by the table
addItem(item) ==
    \E error \in BOOLEAN, id \in Products \ DOMAIN price :
        IF error \/ item.price.isNaN
        THEN UNCHANGED <<inventory_count, price>>
        ELSE /\ price' = Put(price, id, item.price.value)
             /\ WriteCount(id, item)

\* inventory.tsx updateItem(id, updatedItem): every column of itemData is
\* written to the row, if it is still there
updateItem(id, updatedItem) ==
    \E error \in BOOLEAN :
        IF error \/ updatedItem.price.isNaN \/ ~RowExists(id)
        THEN UNCHANGED <<inventory_count, price>>
        ELSE /\ price' = Put(price, id, updatedItem.price.value)
             /\ WriteCount(id, updatedItem)

\* inventory.tsx handleSubmit: the three required fields must hold something,
\* and nothing else is asked of them
handleSubmit ==
    /\ modalVisible
    /\ IF formData.name = "" \/ formData.price = <<>> \/ formData.inventory_count = <<>>
       THEN UNCHANGED <<inventory_count, price, editVars>>
       ELSE LET itemData == [name |-> formData.name,
                             price |-> parseFloat(formData.price),
                             inventory_count |-> parseInt(formData.inventory_count)]
            IN  /\ IF editingItem # null
                   THEN updateItem(editingItem, itemData)
                   ELSE addItem(itemData)
                /\ modalVisible' = FALSE
                /\ resetForm
    /\ UNCHANGED notProducts

\* One vendor at its inventory screen: product p1 is there with some stock,
\* the vendor adds products, edits and deletes them; no orders, no customer.
InitEdit ==
    /\ inventory_count \in [{"p1"} -> 0..MaxStock]
    /\ status = [o \in Orders |-> NoRow]
    /\ order_items = [o \in Orders |-> <<>>]
    /\ InitSessions
    /\ price = [p \in {"p1"} |-> 1]
    /\ total_amount = [o \in Orders |-> null]
    /\ vendor_id = [o \in Orders |-> null]
    /\ cartState = initialState
    /\ selectedAddress = noAddress
    /\ placePc = "idle"
    /\ closure = initialState
    /\ order = NoOrder
    /\ toast = "none"
    /\ InitNoLists
    /\ InitNoTracker
    /\ InitNoForm
    /\ InitNoExtra

NextEdit ==
    \/ AddItemPressed
    \/ \E p \in Products : handleEdit(p)
    \/ onChangeText
    \/ CancelPressed
    \/ onRequestClose
    \/ handleSubmit
    \/ \E p \in Products :
        /\ ~modalVisible
        /\ deleteItem(p)
        /\ UNCHANGED <<listVars, radiusVars, editVars, extraVars>>

EditSpec == InitEdit /\ [][NextEdit]_vars

\* --------------------- delivery addresses (contexts/delivery-address.tsx)

MaxAddresses == 2    \* addresses added in a run
MaxPending == 1      \* address handlers waiting for saveAddresses at a time

Labels == {"home", "work"}

\* interface DeliveryAddress
Address(id, label, isDefault) == [id |-> id, label |-> label, isDefault |-> isDefault]

\* a handler past its setAddresses and waiting for saveAddresses: what it goes
\* on with are the values of the render it was called in
Waiting(op, address, list, selected, stage) ==
    [op |-> op, address |-> address, addresses |-> list, selectedAddress |-> selected,
     stage |-> stage]

\* addresses.find(addr => addr.id === id), noAddress when there is none
Find(list, id) ==
    IF \E i \in 1..Len(list) : list[i].id = id
    THEN list[CHOOSE i \in 1..Len(list) : list[i].id = id]
    ELSE noAddress

notAddress == <<acceptVars, price, total_amount, vendor_id, cartState, placePc, closure,
                order, toast, listVars, radiusVars, editVars, switchVars, notifyVars>>

\* a handler is called: setAddresses(list), then it waits for saveAddresses
Called(op, address, list) ==
    /\ Cardinality(pendingAddress) < MaxPending
    /\ addresses' = list
    /\ pendingAddress' = pendingAddress \cup
            {Waiting(op, address, addresses, selectedAddress, 1)}

\* AddressesScreen handleAddPress and handleEditPress(address)
handleAddPress ==
    /\ ~isModalVisible
    /\ isModalVisible' = TRUE
    /\ editingAddress' = noAddress
    /\ UNCHANGED <<addresses, pendingAddress, clock, selectedAddress, notAddress>>

handleEditPress(address) ==
    /\ ~isModalVisible
    /\ isModalVisible' = TRUE
    /\ editingAddress' = address
    /\ UNCHANGED <<addresses, pendingAddress, clock, selectedAddress, notAddress>>

\* delivery-address.tsx addAddress(address), up to its await
addAddress(label, isDefault) ==
    /\ clock < MaxAddresses
    /\ clock' = clock + 1
    /\ LET newAddress == Address(ToString(clock'), label, isDefault \/ Len(addresses) = 0)
       IN Called("addAddress", newAddress, Append(addresses, newAddress))

\* delivery-address.tsx updateAddress(updatedAddress), up to its await
updateAddress(updatedAddress) ==
    /\ Called("updateAddress", updatedAddress,
              [i \in 1..Len(addresses) |->
                  IF addresses[i].id = updatedAddress.id THEN updatedAddress
                  ELSE addresses[i]])
    /\ UNCHANGED clock

\* AddressesScreen handleSubmit with the fields filled in: the form's label
\* over the address the form was opened for, or a new address
handleSubmitAddress ==
    /\ isModalVisible
    /\ \E label \in Labels :
        IF editingAddress # noAddress
        THEN updateAddress([editingAddress EXCEPT !.label = label])
        ELSE addAddress(label, Len(addresses) = 0)
    /\ UNCHANGED <<isModalVisible, editingAddress, selectedAddress, notAddress>>

\* delivery-address.tsx deleteAddress(id), up to its first await
deleteAddress(id) ==
    /\ ~isModalVisible
    /\ Called("deleteAddress", Find(addresses, id),
              SelectSeq(addresses, LAMBDA addr : addr.id # id))
    /\ UNCHANGED <<clock, isModalVisible, editingAddress, selectedAddress, notAddress>>

\* delivery-address.tsx setDefaultAddress(id), up to its await; the button is
\* on the cards of the addresses that are not the default
setDefaultAddress(id) ==
    /\ ~isModalVisible
    /\ ~Find(addresses, id).isDefault
    /\ Called("setDefaultAddress", [Find(addresses, id) EXCEPT !.isDefault = TRUE],
              [i \in 1..Len(addresses) |->
                  [addresses[i] EXCEPT !.isDefault = (addresses[i].id = id)]])
    /\ UNCHANGED <<clock, isModalVisible, editingAddress, selectedAddress, notAddress>>

\* deleteAddress after its first await, when the deleted address was the
\* default and others are left: the first of them becomes the default
updatedAddresses(newAddresses) ==
    [i \in 1..Len(newAddresses) |-> [newAddresses[i] EXCEPT !.isDefault = (i = 1)]]

\* saveAddresses returns to the handler w that waited for it
Saved(w) ==
    /\ w \in pendingAddress
    /\ LET newAddresses == SelectSeq(w.addresses, LAMBDA addr : addr.id # w.address.id)
       IN
       CASE w.op = "addAddress" ->
              /\ selectedAddress' = IF w.address.isDefault THEN w.address ELSE selectedAddress
              /\ isModalVisible' = FALSE
              /\ pendingAddress' = pendingAddress \ {w}
              /\ UNCHANGED addresses
         [] w.op = "updateAddress" ->
              /\ selectedAddress' = IF w.selectedAddress.id = w.address.id THEN w.address
                                    ELSE selectedAddress
              /\ isModalVisible' = FALSE
              /\ pendingAddress' = pendingAddress \ {w}
              /\ UNCHANGED addresses
         [] w.op = "setDefaultAddress" ->
              /\ selectedAddress' = w.address
              /\ pendingAddress' = pendingAddress \ {w}
              /\ UNCHANGED <<addresses, isModalVisible>>
         [] w.op = "deleteAddress" /\ w.stage = 1 ->
              /\ IF w.address.isDefault /\ Len(newAddresses) > 0
                 THEN /\ addresses' = updatedAddresses(newAddresses)
                      /\ pendingAddress' = (pendingAddress \ {w}) \cup {[w EXCEPT !.stage = 2]}
                 ELSE /\ pendingAddress' = pendingAddress \ {w}
                      /\ UNCHANGED addresses
              /\ selectedAddress' = IF w.selectedAddress.id = w.address.id THEN noAddress
                                    ELSE selectedAddress
              /\ UNCHANGED isModalVisible
         [] w.op = "deleteAddress" /\ w.stage = 2 ->
              /\ selectedAddress' = updatedAddresses(newAddresses)[1]
              /\ pendingAddress' = pendingAddress \ {w}
              /\ UNCHANGED <<addresses, isModalVisible>>
    /\ UNCHANGED <<clock, editingAddress, notAddress>>

\* the cart's address dialog (cart.tsx:287-296): an address of the list
SelectFromList(addr) ==
    /\ selectAddress(addr)
    /\ UNCHANGED <<listVars, radiusVars, editVars, extraVars>>

\* A customer with one product in the cart and no address yet, at the
\* addresses screen and at the cart.
InitAddress ==
    /\ inventory_count = [p \in Catalogue |-> 1]
    /\ status = [o \in Orders |-> NoRow]
    /\ order_items = [o \in Orders |-> <<>>]
    /\ InitSessions
    /\ price = [p \in Catalogue |-> 1]
    /\ total_amount = [o \in Orders |-> null]
    /\ vendor_id = [o \in Orders |-> null]
    /\ cartState = ADD_ITEM(initialState, Product("p1"), 1)
    /\ selectedAddress = noAddress
    /\ placePc = "idle"
    /\ closure = initialState
    /\ order = NoOrder
    /\ toast = "none"
    /\ InitNoLists
    /\ InitNoTracker
    /\ InitNoForm
    /\ InitNoAddresses
    /\ InitNoSwitch
    /\ InitNoNotify

NextAddress ==
    \/ handleAddPress
    \/ \E i \in 1..Len(addresses) : handleEditPress(addresses[i])
    \/ handleSubmitAddress
    \/ \E i \in 1..Len(addresses) : deleteAddress(addresses[i].id)
    \/ \E i \in 1..Len(addresses) : setDefaultAddress(addresses[i].id)
    \/ \E w \in pendingAddress : Saved(w)
    \/ \E i \in 1..Len(addresses) : SelectFromList(addresses[i])
    \/ /\ handlePlaceOrder \/ InsertOrderItems
       /\ UNCHANGED <<listVars, radiusVars, editVars, extraVars>>

AddressSpec == InitAddress /\ [][NextAddress]_vars

\* The inventory form next to the orders screen: one placed order, full stock,
\* a vendor who accepts it from session s1 and edits names and prices of its
\* products in the form, leaving the count field as the form filled it in.
NextEditAccept ==
    \/ /\ \/ fetchOrders("s1")
          \/ SelectOrderItems("s1")
          \/ SelectProducts("s1")
          \/ ForItem("s1")
          \/ UpdateOrderStatus("s1")
          \/ \E o \in Orders : AcceptPressed("s1", o)
       /\ UNCHANGED <<placeVars, listVars, radiusVars, editVars, extraVars>>
    \/ \E p \in Products : handleEdit(p)
    \/ onChangeText /\ formData'.inventory_count = formData.inventory_count
    \/ CancelPressed
    \/ handleSubmit

EditAcceptSpec == InitLifecycle /\ [][NextEditAccept]_vars

\* --------------------------------------------------------------- vocabulary

\* the quantity a list of order lines asks of product p
RECURSIVE SumQty(_, _)
SumQty(list, p) ==
    IF list = <<>> THEN 0
    ELSE (IF Head(list).product_id = p THEN Head(list).quantity ELSE 0)
         + SumQty(Tail(list), p)

\* the quantity the orders of set S ask of product p
RECURSIVE SumOrders(_, _)
SumOrders(S, p) ==
    IF S = {} THEN 0
    ELSE LET o == CHOOSE x \in S : TRUE
         IN SumQty(order_items[o], p) + SumOrders(S \ {o}, p)

Idle == \A s \in Sessions : pc[s] = "idle"

\* session s is in its loop, at a line that asks more than the row it read holds
AtShortLine(s) ==
    /\ pc[s] = "forItems"
    /\ items[s][idx[s]].product_id \in DOMAIN products[s]
    /\ items[s][idx[s]].quantity > products[s][items[s][idx[s]].product_id]

\* session s takes a step of its handler
Moves(s) == pc'[s] # pc[s] \/ idx'[s] # idx[s]

\* the status changes section 4.4 allows
LegalTransitions ==
    { <<"PLACED", "ACCEPTED">>, <<"PLACED", "REJECTED">>, <<"ACCEPTED", "PREPARING">>,
      <<"PREPARING", "OUT_FOR_DELIVERY">>, <<"OUT_FOR_DELIVERY", "DELIVERED">> }

\* --------------------------------------------------------------------- claims

\* C1: in every reachable state every product's inventory_count is >= 0, under
\* any interleaving of accepts from non-negative stock; and an accept at a line
\* whose quantity exceeds the stock it read fails (insufficient inventory)
\* without writing any count.
C1_NeverNegative ==
    /\ [](\A p \in Products : inventory_count[p] >= 0)
    /\ [][\A s \in Sessions :
            (AtShortLine(s) /\ Moves(s)) =>
                (result'[s] = "insufficient" /\ inventory_count' = inventory_count)]_vars

\* one accept took a product's stock to zero and another failed for lack of it
C1_Witness ==
    \E s \in Sessions, p \in Products :
        /\ result[s] = "insufficient"
        /\ initStock[p] > 0
        /\ inventory_count[p] = 0

\* C2 (Scenario B): a product at 2, two PLACED orders of quantity 2 each of it,
\* both accepted concurrently: once both accepts have ended, exactly one order
\* is ACCEPTED, the count is 0, and the other order failed for insufficient
\* stock and is still PLACED.
ScenarioB(p) ==
    /\ initStock[p] = 2
    /\ \A o \in Orders : order_items[o] = <<Line(p, 2)>>

C2_ScenarioB ==
    \A p \in Products :
        ( /\ ScenarioB(p)
          /\ attempts = 2
          /\ orderId["s1"] # orderId["s2"]
          /\ \A s \in Sessions :
                /\ pc[s] = "idle"
                /\ action[s] = "ACCEPTED"
                /\ result[s] \in {"ok", "insufficient"} )
        => \E s \in Sessions, r \in Sessions :
                /\ s # r
                /\ result[s] = "ok" /\ status[orderId[s]] = "ACCEPTED"
                /\ result[r] = "insufficient" /\ status[orderId[r]] = "PLACED"
                /\ inventory_count[p] = 0

\* C3: no decrement is lost to a stale read: when accepts of different orders
\* have all ended successfully (and nothing else was invoked), each product's
\* inventory_count is its initial stock minus the quantity the ACCEPTED orders
\* ask of it.
OnlySuccessfulAccepts ==
    /\ Idle
    /\ \A o \in Orders : nAccept[o] <= 1
    /\ \A s \in Sessions :
        result[s] # "none" => (result[s] = "ok" /\ action[s] = "ACCEPTED")
    /\ attempts = Cardinality({s \in Sessions : result[s] # "none"})

C3_NoLostDecrement ==
    OnlySuccessfulAccepts =>
        \A p \in Products :
            inventory_count[p] =
                initStock[p] - SumOrders({o \in Orders : status[o] = "ACCEPTED"}, p)

\* C4: the decrement batch is all-or-nothing: an accept that failed because a
\* line would go below zero has changed no product's inventory_count.
C4_AllOrNothing ==
    \A s \in Sessions : result[s] = "insufficient" => nwritten[s] = 0

\* C5: acceptance is one unit: when an accept attempt ends, however it ends,
\* either every line of the order was decremented and the status is ACCEPTED,
\* or no inventory was written and the status is as it was before (PLACED);
\* and an order only becomes ACCEPTED with every line decremented.
C5_AcceptIsAtomic ==
    /\ [][\A s \in Sessions :
            (pc[s] # "idle" /\ pc'[s] = "idle" /\ action[s] = "ACCEPTED") =>
                \/ /\ nwritten'[s] = Len(order_items[orderId[s]])
                   /\ status'[orderId[s]] = "ACCEPTED"
                \/ /\ nwritten'[s] = 0
                   /\ status'[orderId[s]] = status[orderId[s]]
                   /\ status'[orderId[s]] # "ACCEPTED"]_vars
    /\ [][\A o \in Orders :
            (status[o] # "ACCEPTED" /\ status'[o] = "ACCEPTED") =>
                \A i \in 1..Len(order_items[o]) : nDec'[o][i] >= 1]_vars

\* C6: an accept attempt that fails because a line's quantity exceeds the stock
\* it read leaves the stored status as it is (PLACED stays PLACED): the failing
\* step writes no status, and no handler is at its status write having passed
\* a line that asked more than the row it read.
C6_FailedAcceptKeepsStatus ==
    /\ [][\A s \in Sessions :
            (result'[s] = "insufficient" /\ pc[s] # "idle") => status' = status]_vars
    /\ [](\A s \in Sessions :
            (pc[s] = "updateStatus" /\ action[s] = "ACCEPTED") =>
                \A i \in 1..Len(items[s]) :
                    items[s][i].product_id \in DOMAIN products[s] =>
                        items[s][i].quantity <= products[s][items[s][i].product_id])

\* an accept failed for insufficient stock and its order is still PLACED
C6_Witness ==
    \E s \in Sessions :
        /\ result[s] = "insufficient"
        /\ action[s] = "ACCEPTED"
        /\ status[orderId[s]] = "PLACED"

\* C7: every change of a stored status is one of the five legal transitions,
\* whatever the sessions do and however stale their lists are.
C7_OnlyLegalTransitions ==
    [][\A o \in Orders :
        status'[o] # status[o] => <<status[o], status'[o]>> \in LegalTransitions]_vars

\* C8: DELIVERED and REJECTED are absorbing: a stored status that is DELIVERED
\* or REJECTED never changes again.
C8_TerminalIsAbsorbing ==
    [][\A o \in Orders :
        status[o] \in {"DELIVERED", "REJECTED"} => status'[o] = status[o]]_vars

\* C9: accept re-validates before mutating: the lines of an order are written
\* to inventory at most once over all accept attempts on it, and an inventory
\* write of an accept only happens while the stored status is PLACED.
C9_DecrementedAtMostOnce ==
    /\ [](\A o \in Orders : \A i \in 1..Len(order_items[o]) : nDec[o][i] <= 1)
    /\ [][\A s \in Sessions :
            nwritten'[s] > nwritten[s] => status[orderId[s]] = "PLACED"]_vars

\* C10: accept is safely retryable: when one session's accepts of one order
\* were the only invocations, each ended by a store error but the last, which
\* succeeded, counts and status are what a single successful accept leaves:
\* initial stock minus the order's quantities, status ACCEPTED.
RetriedUntilAccepted(s, o) ==
    /\ Idle
    /\ nAccept[o] = attempts
    /\ nError = attempts - 1
    /\ orderId[s] = o /\ action[s] = "ACCEPTED" /\ result[s] = "ok"
    /\ \A r \in Sessions \ {s} : result[r] = "none" /\ action[r] = "none"

C10_RetryIsIdempotent ==
    \A s \in Sessions, o \in Orders :
        RetriedUntilAccepted(s, o) =>
            /\ status[o] = "ACCEPTED"
            /\ \A p \in Products :
                inventory_count[p] = initStock[p] - SumQty(order_items[o], p)

\* ------------------------------------------------- claims on order placement

\* C11: for every stored order, whenever no placement is under way, the sum of
\* price*quantity over its stored order items equals its total_amount: after
\* its creation and after any later price edit, product deletion or failed
\* placement step.
C11_TotalMatchesItems ==
    placePc = "idle" =>
        \A o \in Orders :
            Stored(o) => SumPriceQuantity(order_items[o]) = total_amount[o]

\* C12: placement is atomic: a placement that ends without having stored the
\* order's items leaves no order row behind.
C12_PlacementIsAtomic ==
    [][(placePc = "insertItems" /\ placePc' = "idle" /\ order_items'[order] = <<>>)
            => ~Stored(order)']_vars

\* the quantities of cart items at the store's prices
RECURSIVE SumStorePrice(_)
SumStorePrice(cartItems) ==
    IF cartItems = <<>> THEN 0
    ELSE price[Head(cartItems).id] * Head(cartItems).quantity
         + SumStorePrice(Tail(cartItems))

\* C13: the unit price stored in each order item, and the one total_amount is
\* computed from, is the product's price in the store when the order is
\* placed, also when the vendor changed the price after the customer added the
\* product to the cart.
C13_PriceAtPlacement ==
    /\ [][\A o \in Orders :
            (order_items[o] = <<>> /\ order_items'[o] # <<>>) =>
                \A i \in 1..Len(order_items'[o]) :
                    order_items'[o][i].product_id \in DOMAIN price =>
                        order_items'[o][i].price = price[order_items'[o][i].product_id]]_vars
    /\ [][\A o \in Orders :
            (~Stored(o) /\ Stored(o)'
                /\ \A i \in 1..Len(cartState.items) : cartState.items[i].id \in DOMAIN price)
            => total_amount'[o] = SumStorePrice(cartState.items)]_vars

\* C14: every stored order item references a product of the order's vendor;
\* the cart never mixes vendors, and a step from a cart that is not empty never
\* yields a cart holding a product of another vendor than that cart's: the
\* attempt is refused, with the cart and the store as they were.
C14_SingleVendorOrders ==
    /\ [](\A o \in Orders : \A i \in 1..Len(order_items[o]) :
            product_vendor_id[order_items[o][i].product_id] = vendor_id[o])
    /\ [](\A i \in 1..Len(cartState.items) :
            cartState.items[i].vendor_id = cartState.vendorId)
    /\ [][Len(cartState.items) > 0 =>
            \A i \in 1..Len(cartState'.items) :
                product_vendor_id[cartState'.items[i].id] = cartState.vendorId]_vars
    /\ [][(toast' = "Items from different vendors" /\ toast # toast') =>
            UNCHANGED <<cartState, storeVars, total_amount, vendor_id>>]_vars

\* an order of two products of vendor vA is stored, the cart holds a product
\* of vA again, and the tap on vendor vB's product has just been refused
C14_Witness ==
    /\ toast = "Items from different vendors"
    /\ cartState.vendorId = "vA"
    /\ Len(cartState.items) > 0
    /\ \E o \in Orders : Stored(o) /\ Len(order_items[o]) = 2 /\ vendor_id[o] = "vA"

\* C18: placing orders leaves every product's inventory_count as it was, for
\* any number of orders and any quantities.
C18_PlacingKeepsInventory ==
    inventory_count = initStock

\* two PLACED orders that together ask more of a product than is in stock
C18_Witness ==
    /\ placePc = "idle"
    /\ \A o \in Orders : status[o] = "PLACED"
    /\ SumOrders(Orders, "p1") > inventory_count["p1"]

\* ------------------------------------------------ claims on the orders lists

\* C15: only the owning vendor drives transitions: every order a vendor
\* session lists, and every order whose status a session wrote, has the
\* vendor_id of that session's own vendors row (also when the lookup of that
\* row returned nothing); a customer session lists only orders with its own
\* customer_id, and never writes a status.
C15_OwningVendorOnly ==
    /\ \A u \in Users, o \in Orders :
        orders[u][o] # NoRow =>
            IF isVendor(u) THEN vendor_id[o] = VendorRecord(u) ELSE customer_id[o] = u
    /\ \A o \in Orders : \A u \in changedBy[o] :
        isVendor(u) /\ vendor_id[o] = VendorRecord(u)

\* ------------------------------------------------ claims on the radius query

\* the most recent location update of vendor v, over all of its updates
LatestUpdate(v) ==
    CHOOSE r \in vendor_locations :
        /\ r.vendor_id = v
        /\ \A other \in vendor_locations :
            other.vendor_id = v => other.updated_at <= r.updated_at

\* this step is a call of get_active_vendors that returned
Returned == <<vendors, query>>' # <<vendors, query>>

\* C16: every vendor the radius query returns has, as its most recent location
\* update by updated_at, a record with is_active = true and a location; a
\* vendor whose latest update is inactive or without location is not returned.
C16_LatestUpdateActive ==
    [][Returned =>
        \A i \in 1..Len(vendors') :
            /\ LatestUpdate(vendors'[i].id).is_active
            /\ LatestUpdate(vendors'[i].id).location # NullLocation]_vars

\* the vendor's last known point: the location of its latest update that has one
LastKnownPoint(v) ==
    (CHOOSE r \in vendor_locations :
        /\ r.vendor_id = v /\ r.location # NullLocation
        /\ \A other \in vendor_locations :
            (other.vendor_id = v /\ other.location # NullLocation)
                => other.updated_at <= r.updated_at).location

C19_RejectKeepsInventory ==
    /\ [][\A s \in Sessions :
            (action'[s] = "REJECTED" /\ Moves(s)) =>
                /\ inventory_count' = inventory_count
                /\ (result'[s] = "ok" => status'[orderId[s]] = "REJECTED")]_vars
    /\ [](\A s \in Sessions :
            action[s] = "REJECTED" =>
                /\ pc[s] \in {"idle", "updateStatus"}
                /\ nwritten[s] = 0)

\* a PLACED order that asks for stock there is was rejected: it is REJECTED
\* and the counts are as they were at the start
C19_Witness ==
    \E s \in Sessions :
        /\ action[s] = "REJECTED" /\ result[s] = "ok"
        /\ status[orderId[s]] = "REJECTED"
        /\ \A i \in 1..Len(order_items[orderId[s]]) :
            initStock[order_items[orderId[s]][i].product_id]
                >= order_items[orderId[s]][i].quantity
        /\ inventory_count = initStock

\* ------------------------------------------- claims on the inventory form

\* C20: a stock correction by the vendor with a negative value fails and
\* leaves the stored inventory_count as it was, so that no sequence of product
\* creations and edits stores a negative inventory_count: every products row
\* has a count of zero or more (or none)
C20_NoNegativeCorrection ==
    \A p \in DOMAIN price :
        p \in DOMAIN inventory_count => inventory_count[p] >= 0

\* ------------------------------------------------------- claims on the cart

C27_EditKeepsInventory ==
    [][price' # price => inventory_count' = inventory_count]_vars

\* ------------------------------------------ claims on delivery addresses

\* the addresses of a list that are flagged default
Defaults(list) == {i \in 1..Len(list) : list[i].isDefault}

\* C21: once the address handlers called have returned, the list holds at
\* most one default address, and exactly one when it holds an address
C21_OneDefaultAddress ==
    pendingAddress = {} =>
        /\ Cardinality(Defaults(addresses)) <= 1
        /\ Len(addresses) > 0 => Cardinality(Defaults(addresses)) = 1

\* C30: once the address handlers called have returned, selectedAddress is
\* null or an address of the list as the list holds it; an order is placed
\* with such an address only, and without an address nothing is written
C30_SelectedAddressInList ==
    /\ [](pendingAddress = {} =>
            \/ selectedAddress = noAddress
            \/ \E i \in 1..Len(addresses) : addresses[i] = selectedAddress)
    /\ [][status' # status =>
            \E i \in 1..Len(addresses) : addresses[i] = selectedAddress]_vars

\* --------------------------------------- claims on the tracker's switch

\* C23: once the vendor has switched tracking off and stopLocationTracking
\* has recorded it, and until the vendor switches it on again, the vendor's
\* most recent stored status is is_active = false, whatever location update
\* was still on its way
C23_StoppedStaysInactive ==
    stopRecorded => ~LatestUpdate(vendorId).is_active

\* C28: when the switch is off and neither startLocationTracking nor
\* stopLocationTracking is running, no location subscription is live, and
\* while that lasts no is_active = true update is sent
C28_SwitchAndSubscriptionAgree ==
    /\ [](~isActive /\ startPc = "idle" /\ stopPc = "idle" => ~locationSubscription)
    /\ [][/\ ~isActive /\ startPc = "idle" /\ stopPc = "idle"
          /\ ~isActive' /\ startPc' = "idle" /\ stopPc' = "idle"
          => \A request \in requests' \ requests : ~request.is_active]_vars

\* C29: a tracker that is unmounted while the vendor is active (tracking has
\* started, no update is on its way) removes its subscription and records
\* is_active = false: the vendor is recorded as inactive in the end
C29_UnmountRecordsInactive ==
    (/\ ~mounted /\ isActive /\ startPc = "idle" /\ requests = {}
     /\ ~locationSubscription /\ vendor_locations # {})
        ~> (~locationSubscription /\ vendor_locations # {}
                /\ ~LatestUpdate(vendorId).is_active)

\* ------------------------------------------ claims on the orders channel

\* C22: when no change notification is on its way and every fetchOrders call
\* has returned, none of them having failed since the store last changed, the
\* list the screen shows is what the store holds for its user
C22_ListEqualsStoreWhenQuiet ==
    fetching = {} /\ channel = 0 /\ ~failed
        => orders[screenUser] = QueryResult(screenUser)

====
